---- MODULE Spec2Model ----
(***************************************************************************)
(* The App component of src/App.tsx as a state machine.                    *)
(*                                                                         *)
(* The React state of the component (the useState cells and the one ref)   *)
(* are the variables.  Every handler is an action; an async handler is one *)
(* action per synchronous run of its body: from its call to the first      *)
(* await, and from each await's settlement to the next await or the end.   *)
(* JavaScript runs each such piece to completion, and React commits the    *)
(* state updates a piece makes before the next event is dispatched, so a   *)
(* handler reads the state the preceding piece left.                       *)
(*                                                                         *)
(* A handler is invoked through the widget that carries it, so it can run  *)
(* only while the render shows that widget.  The one exception is the      *)
(* Generate button: its disabled attribute (line 253) repeats the guard of *)
(* line 123, and handleGenerateVideo is callable whenever the button is    *)
(* rendered, so that the guard of the handler is what decides.             *)
(*                                                                         *)
(* JavaScript values that may be null or undefined are records             *)
(* [kind, chars]; a string's chars is the sequence of its fragments (a     *)
(* fragment stands for a run of characters).  Object URLs and interval     *)
(* ids are positive numbers, 0 standing for null.                          *)
(***************************************************************************)
EXTENDS Integers, Sequences, FiniteSets, TLC

VARIABLES
  hasApiKey,           \* useState, line 42
  prompt,              \* useState, line 43
  referenceImage,      \* useState, line 44: [file, previewUrl, base64]
  aspectRatio,         \* useState, line 45
  resolution,          \* useState, line 46
  isLoading,           \* useState, line 47
  generatedVideoUrl,   \* useState, line 49
  error,               \* useState, line 50
  loadingIntervalRef,  \* useRef, line 52
  effectDep,           \* the isLoading the effect of lines 71-90 last ran with
  timers,              \* window: the interval timers that are running
  objectUrls,          \* URL store: [created, revoked] preview object URLs
  checkPc,             \* checkApiKey of the mount effect: "await" or "done"
  selectPending,       \* handleSelectKey invocations awaiting openSelectKey
  reads,               \* handleImageChange invocations awaiting fileToBase64
  jobs,                \* handleGenerateVideo invocations past their guard
  lastSubmit,          \* what the handleGenerateVideo call of this step did
  mounted              \* the component is mounted

vars == <<hasApiKey, prompt, referenceImage, aspectRatio, resolution, isLoading,
          generatedVideoUrl, error, loadingIntervalRef, effectDep, timers,
          objectUrls, checkPc, selectPending, reads, jobs, lastSubmit, mounted>>

----------------------------------------------------------------------------
(* Bounds of the model. *)

\* Longest prompt the user types.
MaxPromptLen == 1
\* Not-done answers the service gives one job before it reports done.
MaxPolls == 2
\* Preview object URLs created in one run.
MaxUrls == 2
\* Files the user can pick from.
MaxFiles == 2
\* handleSelectKey invocations awaiting the dialog at one time.
MaxSelect == 1

----------------------------------------------------------------------------
(* JavaScript values. *)

Null == [kind |-> "null", chars |-> <<>>]
Undefined == [kind |-> "undefined", chars |-> <<>>]
Str(s) == [kind |-> "string", chars |-> s]

\* JavaScript truthiness of a string-or-null value.
Truthy(v) == v.kind = "string" /\ v.chars # <<>>

\* String.prototype.includes on fragment sequences.
Includes(hay, needle) ==
  \E i \in 0..(Len(hay) - Len(needle)) :
    \A j \in 1..Len(needle) : hay[i + j] = needle[j]

RECURSIVE TrimStart(_)
TrimStart(s) == IF s # <<>> /\ Head(s) = " " THEN TrimStart(Tail(s)) ELSE s

RECURSIVE TrimEnd(_)
TrimEnd(s) ==
  IF s # <<>> /\ s[Len(s)] = " " THEN TrimEnd(SubSeq(s, 1, Len(s) - 1)) ELSE s

\* String.prototype.trim: the characters of a prompt are " " and "a".
Trim(s) == TrimEnd(TrimStart(s))

RECURSIVE SeqsUpTo(_, _)
SeqsUpTo(S, n) ==
  IF n = 0 THEN {<<>>}
  ELSE LET shorter == SeqsUpTo(S, n - 1)
       IN shorter \cup {Append(s, c) : s \in shorter, c \in S}

Prompts == SeqsUpTo({" ", "a"}, MaxPromptLen)
DefaultPrompt == <<"a">>

----------------------------------------------------------------------------
(* Messages. *)

NotFoundNeedle == <<"Requested entity was not found.">>
InvalidKeyMessage ==
  <<"Your API key is invalid or not found. Please select a valid key and try again.">>
UnknownErrorMessage == <<"An unknown error occurred.">>
NoDownloadLinkMessage ==
  <<"Video generation succeeded but no download link was found.">>
FetchFailedPrefix == <<"Failed to fetch video data: ">>
DialogErrorMessage ==
  <<"Could not open the API key selection dialog. Please try again.">>

\* The message property of the errors a remote call is rejected with.
ErrorMessages ==
  { Undefined,
    Str(<<>>),
    Str(<<"The service is currently unavailable.">>),
    Str(<<"404 NOT_FOUND: ">> \o NotFoundNeedle) }

\* The statusText of a media response that is not ok.
StatusTexts == { <<>>, <<"Forbidden">>, NotFoundNeedle }

\* The uri of a finished operation: absent, empty, or a locator.
ResultUris == { Undefined, Str(<<>>), Str(<<"https://media/video.mp4?alt=media">>) }

VideoObjectUrl == Str(<<"blob:video">>)

----------------------------------------------------------------------------
(* Files and fileToBase64. *)

Files == 1..MaxFiles
FileType(f) == IF f % 2 = 1 THEN "image/png" ELSE "image/jpeg"
\* File f holds f - 1 bytes.
FileBytes(f) == [i \in 1..(f - 1) |-> (77 * i + 20 * f) % 256]

\* The base64 digits (0..63, 64 for "=") of up to three bytes.
Base64Group(b) ==
  LET n == Len(b)
      b1 == b[1]
      b2 == IF n >= 2 THEN b[2] ELSE 0
      b3 == IF n >= 3 THEN b[3] ELSE 0
  IN << b1 \div 4,
        (b1 % 4) * 16 + (b2 \div 16),
        IF n >= 2 THEN (b2 % 16) * 4 + (b3 \div 64) ELSE 64,
        IF n >= 3 THEN b3 % 64 ELSE 64 >>

RECURSIVE Base64(_)
Base64(bytes) ==
  IF bytes = <<>> THEN <<>>
  ELSE IF Len(bytes) <= 3 THEN Base64Group(bytes)
  ELSE Base64Group(SubSeq(bytes, 1, 3)) \o Base64(SubSeq(bytes, 4, Len(bytes)))

\* reader.result of readAsDataURL, split at its commas.
DataUrlParts(f) == << <<"data:", FileType(f), ";base64">>, Base64(FileBytes(f)) >>

\* What fileToBase64 resolves with: reader.result.split(',')[1].
fileToBase64(f) ==
  LET parts == DataUrlParts(f)
  IN IF Len(parts) >= 2 THEN Str(parts[2]) ELSE Undefined

NoImage == [file |-> 0, previewUrl |-> 0, base64 |-> Null]

----------------------------------------------------------------------------
(* The message-rotation effect, lines 71-90. *)

\* React runs the passive effects of a commit before it handles the next
\* event or update.
EffectsFlushed == effectDep = isLoading

Max(S) == CHOOSE x \in S : \A y \in S : y <= x

\* window.setInterval returns an id no timer holds.
NewTimerId(ts, ref) == Max(ts \cup {ref}) + 1

\* A cleanup that clears nothing.
EffectCleanupMissing(ts, ref) == ts

\* The cleanup the effect returned, lines 85-89.
EffectCleanup(ts, ref) == IF ref # 0 THEN ts \ {ref} ELSE ts

\* The effect body, lines 72-83, as [timers, ref].
EffectBody(ts, ref, loading) ==
  IF loading
  THEN [timers |-> ts \cup {NewTimerId(ts, ref)}, ref |-> NewTimerId(ts, ref)]
  ELSE IF ref # 0
       THEN [timers |-> ts \ {ref}, ref |-> 0]
       ELSE [timers |-> ts, ref |-> ref]

\* isLoading changed in the last commit: cleanup of the previous run, then
\* the body.
RunEffect ==
  /\ mounted
  /\ effectDep # isLoading
  /\ LET r == EffectBody(EffectCleanup(timers, loadingIntervalRef),
                         loadingIntervalRef, isLoading)
     IN /\ timers' = r.timers
        /\ loadingIntervalRef' = r.ref
  /\ effectDep' = isLoading
  /\ lastSubmit' = "none"
  /\ UNCHANGED <<hasApiKey, prompt, referenceImage, aspectRatio, resolution,
                 isLoading, generatedVideoUrl, error, objectUrls, checkPc,
                 selectPending, reads, jobs, mounted>>

\* Unmount runs the cleanup of the last effect run and discards the state
\* cells; the ref and the window's timers are what is left to observe.  The
\* continuations still pending then only update a component that is gone,
\* and the model ends here.
Unmount ==
  /\ mounted
  /\ EffectsFlushed
  /\ mounted' = FALSE
  /\ timers' = EffectCleanup(timers, loadingIntervalRef)
  /\ hasApiKey' = FALSE
  /\ prompt' = <<>>
  /\ referenceImage' = NoImage
  /\ aspectRatio' = "16:9"
  /\ resolution' = "1080p"
  /\ isLoading' = FALSE
  /\ generatedVideoUrl' = Null
  /\ error' = Null
  /\ effectDep' = FALSE
  /\ checkPc' = "done"
  /\ selectPending' = 0
  /\ reads' = {}
  /\ jobs' = <<>>
  /\ lastSubmit' = "none"
  /\ UNCHANGED <<loadingIntervalRef, objectUrls>>

\* A handler or a continuation can run.
Ready == mounted /\ EffectsFlushed

\* The render, lines 318-330: the key prompt, or else the main content.
KeyPromptShown == ~hasApiKey
MainContentShown == hasApiKey

\* The render, lines 207-223: the preview with its remove button, or else
\* the upload input.
PreviewShown == MainContentShown /\ referenceImage.previewUrl # 0
UploadShown == MainContentShown /\ referenceImage.previewUrl = 0

\* What the steps outside the effect leave alone.
EffectFrame == UNCHANGED <<loadingIntervalRef, effectDep, timers, mounted>>

----------------------------------------------------------------------------
(* Credential presence and selection, lines 54-69 and 92-101. *)

\* hasSelectedApiKey settles: true, false, or a rejection.
CheckApiKeySettles ==
  /\ Ready
  /\ checkPc = "await"
  /\ \E answer \in {"true", "false", "reject"} :
       hasApiKey' = (answer = "true")
  /\ checkPc' = "done"
  /\ lastSubmit' = "none"
  /\ EffectFrame
  /\ UNCHANGED <<prompt, referenceImage, aspectRatio, resolution, isLoading,
                 generatedVideoUrl, error, objectUrls, selectPending, reads,
                 jobs>>

\* handleSelectKey up to its await of openSelectKey.
handleSelectKey ==
  /\ Ready
  /\ KeyPromptShown
  /\ selectPending < MaxSelect
  /\ selectPending' = selectPending + 1
  /\ lastSubmit' = "none"
  /\ EffectFrame
  /\ UNCHANGED <<hasApiKey, prompt, referenceImage, aspectRatio, resolution,
                 isLoading, generatedVideoUrl, error, objectUrls, checkPc,
                 reads, jobs>>

\* openSelectKey resolves: line 96.
SelectKeyResolves ==
  /\ Ready
  /\ selectPending > 0
  /\ selectPending' = selectPending - 1
  /\ hasApiKey' = TRUE
  /\ lastSubmit' = "none"
  /\ EffectFrame
  /\ UNCHANGED <<prompt, referenceImage, aspectRatio, resolution, isLoading,
                 generatedVideoUrl, error, objectUrls, checkPc, reads, jobs>>

\* openSelectKey rejects: lines 97-100.
SelectKeyRejects ==
  /\ Ready
  /\ selectPending > 0
  /\ selectPending' = selectPending - 1
  /\ error' = Str(DialogErrorMessage)
  /\ lastSubmit' = "none"
  /\ EffectFrame
  /\ UNCHANGED <<hasApiKey, prompt, referenceImage, aspectRatio, resolution,
                 isLoading, generatedVideoUrl, objectUrls, checkPc, reads, jobs>>

----------------------------------------------------------------------------
(* The form fields, lines 200, 232 and 242. *)

\* A payload that shares the prompt with the form instead of holding its own.
setPromptShared ==
  /\ Ready
  /\ MainContentShown
  /\ \E p \in Prompts :
       /\ prompt' = p
       /\ jobs' = [i \in DOMAIN jobs |->
                    IF jobs[i].pc = "generateVideos"
                    THEN [jobs[i] EXCEPT !.payload.prompt = p]
                    ELSE jobs[i]]
  /\ lastSubmit' = "none"
  /\ EffectFrame
  /\ UNCHANGED <<hasApiKey, referenceImage, aspectRatio, resolution, isLoading,
                 generatedVideoUrl, error, objectUrls, checkPc, selectPending,
                 reads>>

setPrompt ==
  /\ Ready
  /\ MainContentShown
  /\ \E p \in Prompts : prompt' = p
  /\ lastSubmit' = "none"
  /\ EffectFrame
  /\ UNCHANGED <<hasApiKey, referenceImage, aspectRatio, resolution, isLoading,
                 generatedVideoUrl, error, objectUrls, checkPc, selectPending,
                 reads, jobs>>

setAspectRatio ==
  /\ Ready
  /\ MainContentShown
  /\ \E r \in {"16:9", "9:16"} : aspectRatio' = r
  /\ lastSubmit' = "none"
  /\ EffectFrame
  /\ UNCHANGED <<hasApiKey, prompt, referenceImage, resolution, isLoading,
                 generatedVideoUrl, error, objectUrls, checkPc, selectPending,
                 reads, jobs>>

setResolution ==
  /\ Ready
  /\ MainContentShown
  /\ \E r \in {"720p", "1080p"} : resolution' = r
  /\ lastSubmit' = "none"
  /\ EffectFrame
  /\ UNCHANGED <<hasApiKey, prompt, referenceImage, aspectRatio, isLoading,
                 generatedVideoUrl, error, objectUrls, checkPc, selectPending,
                 reads, jobs>>

----------------------------------------------------------------------------
(* The reference image, lines 103-120. *)

\* URL.revokeObjectURL(u).
Revoke(urls, u) == [urls EXCEPT !.revoked = @ \cup {u}]

\* A handler that forgets the revocation.
RevokeHeldMissing(urls, image) == urls

\* The revocation of lines 106-108 and 116-118.
RevokeHeld(urls, image) ==
  IF image.previewUrl # 0 THEN Revoke(urls, image.previewUrl) ELSE urls

\* handleImageChange up to its await of fileToBase64, lines 104-110.
\* objectUrls.created counts the URLs createObjectURL has returned.
handleImageChange ==
  /\ Ready
  /\ UploadShown
  /\ objectUrls.created < MaxUrls
  /\ \E file \in Files :
       LET previewUrl == objectUrls.created + 1
       IN /\ objectUrls' = [RevokeHeld(objectUrls, referenceImage)
                              EXCEPT !.created = previewUrl]
          /\ reads' = reads \cup {[file |-> file, previewUrl |-> previewUrl]}
  /\ lastSubmit' = "none"
  /\ EffectFrame
  /\ UNCHANGED <<hasApiKey, prompt, referenceImage, aspectRatio, resolution,
                 isLoading, generatedVideoUrl, error, checkPc, selectPending,
                 jobs>>

\* The files input changed to no file: line 105 skips the body.
handleImageChangeNoFile ==
  /\ Ready
  /\ UploadShown
  /\ lastSubmit' = "none"
  /\ EffectFrame
  /\ UNCHANGED <<hasApiKey, prompt, referenceImage, aspectRatio, resolution,
                 isLoading, generatedVideoUrl, error, objectUrls, checkPc,
                 selectPending, reads, jobs>>

\* fileToBase64 resolves: line 111.
FileReadResolves ==
  /\ Ready
  /\ \E r \in reads :
       /\ referenceImage' = [file |-> r.file, previewUrl |-> r.previewUrl,
                             base64 |-> fileToBase64(r.file)]
       /\ reads' = reads \ {r}
  /\ lastSubmit' = "none"
  /\ EffectFrame
  /\ UNCHANGED <<hasApiKey, prompt, aspectRatio, resolution, isLoading,
                 generatedVideoUrl, error, objectUrls, checkPc, selectPending,
                 jobs>>

\* fileToBase64 rejects (lines 13 and 16): handleImageChange ends at line 110.
FileReadRejects ==
  /\ Ready
  /\ \E r \in reads : reads' = reads \ {r}
  /\ lastSubmit' = "none"
  /\ EffectFrame
  /\ UNCHANGED <<hasApiKey, prompt, referenceImage, aspectRatio, resolution,
                 isLoading, generatedVideoUrl, error, objectUrls, checkPc,
                 selectPending, jobs>>

\* removeImage, lines 115-120.
removeImage ==
  /\ Ready
  /\ PreviewShown
  /\ objectUrls' = RevokeHeld(objectUrls, referenceImage)
  /\ referenceImage' = NoImage
  /\ lastSubmit' = "none"
  /\ EffectFrame
  /\ UNCHANGED <<hasApiKey, prompt, aspectRatio, resolution, isLoading,
                 generatedVideoUrl, error, checkPc, selectPending, reads, jobs>>

----------------------------------------------------------------------------
(* handleGenerateVideo, lines 122-183. *)

\* An early return that tests the prompt without trimming it.
SubmitGuardNoTrim == prompt = <<>> \/ isLoading

\* An early return that tests the prompt alone.
SubmitGuardPromptOnly == Trim(prompt) = <<>>

\* The early return of line 123.
SubmitGuard == Trim(prompt) = <<>> \/ isLoading

\* The payload of lines 133-148.
Payload ==
  [ model |-> "veo-3.1-fast-generate-preview",
    prompt |-> prompt,
    numberOfVideos |-> 1,
    resolution |-> resolution,
    aspectRatio |-> aspectRatio,
    image |-> IF Truthy(referenceImage.base64) /\ referenceImage.file # 0
              THEN [imageBytes |-> referenceImage.base64,
                    mimeType |-> FileType(referenceImage.file)]
              ELSE Undefined ]

NoOperation == [done |-> FALSE, uri |-> Null]

\* What the service answers generateVideos and getVideosOperation with.
Operations ==
  {[done |-> FALSE, uri |-> Undefined]} \cup
  {[done |-> TRUE, uri |-> u] : u \in ResultUris}

RemoveAt(s, i) == SubSeq(s, 1, i - 1) \o SubSeq(s, i + 1, Len(s))

\* What leaves a job alone but for its own record.
JobFrame ==
  UNCHANGED <<prompt, referenceImage, aspectRatio, resolution, objectUrls,
              selectPending, reads>>

\* handleGenerateVideo up to its await of generateVideos, lines 123-150.
\* pc names the call the invocation awaits; setLoadingMessage is not modelled.
\* operation is the local of line 150, polls the number of not-done answers
\* it has been assigned, and asked the number of the answer whose operation
\* the pending getVideosOperation call was passed.
handleGenerateVideo ==
  /\ Ready
  /\ MainContentShown
  /\ IF SubmitGuard
     THEN /\ lastSubmit' = "ignored"
          /\ UNCHANGED <<isLoading, error, generatedVideoUrl, jobs>>
     ELSE /\ lastSubmit' = "accepted"
          /\ isLoading' = TRUE
          /\ error' = Null
          /\ generatedVideoUrl' = Null
          /\ jobs' = Append(jobs, [pc |-> "generateVideos", payload |-> Payload,
                                   operation |-> NoOperation, polls |-> 0,
                                   asked |-> 0])
  /\ EffectFrame
  /\ JobFrame
  /\ UNCHANGED <<hasApiKey, checkPc>>

\* The job goes on to its next await.
Continue(i, job) ==
  /\ jobs' = [jobs EXCEPT ![i] = job]
  /\ UNCHANGED <<hasApiKey, isLoading, generatedVideoUrl, error, checkPc>>

\* A catch block that drops the error's own message.
ErrorMessageOfGeneric(message) == UnknownErrorMessage

\* err.message || "An unknown error occurred.", line 174.
ErrorMessageOf(message) ==
  IF Truthy(message) THEN message.chars ELSE UnknownErrorMessage

\* A test for the exact message instead of a substring.
IsNotFoundExact(errorMessage) == errorMessage = NotFoundNeedle

\* The test of line 175.
IsNotFound(errorMessage) == Includes(errorMessage, NotFoundNeedle)

\* A catch block that submits the job again instead of ending it.
JobFailsRetries(i, message) ==
  /\ jobs' = [jobs EXCEPT ![i] = [@ EXCEPT !.pc = "generateVideos"]]
  /\ UNCHANGED <<hasApiKey, isLoading, generatedVideoUrl, error, checkPc>>

\* A catch block that takes the key away on every error.
JobFailsDropsKey(i, message) ==
  LET errorMessage == ErrorMessageOf(message)
  IN /\ error' = Str(IF IsNotFound(errorMessage)
                     THEN InvalidKeyMessage ELSE errorMessage)
     /\ hasApiKey' = FALSE
     /\ isLoading' = FALSE
     /\ jobs' = RemoveAt(jobs, i)
     /\ UNCHANGED <<generatedVideoUrl, checkPc>>

\* A catch block that also asks the host again whether a key is selected.
JobFailsChecksKey(i, message) ==
  LET errorMessage == ErrorMessageOf(message)
  IN /\ IF IsNotFound(errorMessage)
        THEN /\ error' = Str(InvalidKeyMessage)
             /\ hasApiKey' = FALSE
        ELSE /\ error' = Str(errorMessage)
             /\ UNCHANGED hasApiKey
     /\ isLoading' = FALSE
     /\ jobs' = RemoveAt(jobs, i)
     /\ checkPc' = "await"
     /\ UNCHANGED generatedVideoUrl

\* The catch and finally blocks, lines 172-182, for an error with this message.
JobFails(i, message) ==
  LET errorMessage == ErrorMessageOf(message)
  IN /\ IF IsNotFound(errorMessage)
        THEN /\ error' = Str(InvalidKeyMessage)
             /\ hasApiKey' = FALSE
        ELSE /\ error' = Str(errorMessage)
             /\ UNCHANGED hasApiKey
     /\ isLoading' = FALSE
     /\ jobs' = RemoveAt(jobs, i)
     /\ UNCHANGED <<generatedVideoUrl, checkPc>>

\* A success path that leaves the busy flag set.
JobSucceedsStaysBusy(i) ==
  /\ generatedVideoUrl' = VideoObjectUrl
  /\ jobs' = RemoveAt(jobs, i)
  /\ UNCHANGED <<hasApiKey, error, checkPc, isLoading>>

\* Lines 168-170 and the finally block.
JobSucceeds(i) ==
  /\ generatedVideoUrl' = VideoObjectUrl
  /\ isLoading' = FALSE
  /\ jobs' = RemoveAt(jobs, i)
  /\ UNCHANGED <<hasApiKey, error, checkPc>>

\* A loop that fetches without testing the download link.
AfterOperationNoLinkTest(i, operation) ==
  LET job == [jobs[i] EXCEPT !.operation = operation, !.payload = Undefined]
  IN IF ~operation.done
     THEN Continue(i, [job EXCEPT !.pc = "setTimeout", !.polls = @ + 1])
     ELSE Continue(i, [job EXCEPT !.pc = "fetch"])

\* A loop that drops the status getVideosOperation returned.
AfterOperationStatusDropped(i, operation) ==
  IF jobs[i].pc = "getVideosOperation"
  THEN Continue(i, [jobs[i] EXCEPT !.pc = "setTimeout"])
  ELSE LET job == [jobs[i] EXCEPT !.operation = operation, !.payload = Undefined]
       IN IF ~operation.done
          THEN Continue(i, [job EXCEPT !.pc = "setTimeout", !.polls = @ + 1])
          ELSE IF ~Truthy(operation.uri)
               THEN JobFails(i, Str(NoDownloadLinkMessage))
               ELSE Continue(i, [job EXCEPT !.pc = "fetch"])

\* A loop that tests done only after its first poll.
AfterOperationDoWhile(i, operation) ==
  LET job == [jobs[i] EXCEPT !.operation = operation, !.payload = Undefined]
  IN IF ~operation.done \/ jobs[i].pc = "generateVideos"
     THEN Continue(i, [job EXCEPT !.pc = "setTimeout", !.polls = @ + 1])
     ELSE IF ~Truthy(operation.uri)
          THEN JobFails(i, Str(NoDownloadLinkMessage))
          ELSE Continue(i, [job EXCEPT !.pc = "fetch"])

\* Lines 152-163 once an operation status is in: delay and poll again while
\* it is not done; then the download link, or the error of line 160.
AfterOperation(i, operation) ==
  LET job == [jobs[i] EXCEPT !.operation = operation, !.payload = Undefined]
  IN IF ~operation.done
     THEN Continue(i, [job EXCEPT !.pc = "setTimeout", !.polls = @ + 1])
     ELSE IF ~Truthy(operation.uri)
          THEN JobFails(i, Str(NoDownloadLinkMessage))
          ELSE Continue(i, [job EXCEPT !.pc = "fetch"])

\* The service answers not-done at most MaxPolls times per job.
MayAnswer(i, operation) == operation.done \/ jobs[i].polls < MaxPolls

\* generateVideos settles, line 150.
GenerateVideosSettles ==
  /\ Ready
  /\ \E i \in 1..Len(jobs) :
       /\ jobs[i].pc = "generateVideos"
       /\ \/ \E operation \in Operations :
               MayAnswer(i, operation) /\ AfterOperation(i, operation)
          \/ \E message \in ErrorMessages : JobFails(i, message)
  /\ lastSubmit' = "none"
  /\ EffectFrame
  /\ JobFrame

\* The delay of line 153 elapses and getVideosOperation is called, line 154.
PollDelayElapses ==
  /\ Ready
  /\ \E i \in 1..Len(jobs) :
       /\ jobs[i].pc = "setTimeout"
       /\ Continue(i, [jobs[i] EXCEPT !.pc = "getVideosOperation",
                                      !.asked = jobs[i].polls])
  /\ lastSubmit' = "none"
  /\ EffectFrame
  /\ JobFrame

\* getVideosOperation settles, line 154.
GetVideosOperationSettles ==
  /\ Ready
  /\ \E i \in 1..Len(jobs) :
       /\ jobs[i].pc = "getVideosOperation"
       /\ \/ \E operation \in Operations :
               MayAnswer(i, operation) /\ AfterOperation(i, operation)
          \/ \E message \in ErrorMessages : JobFails(i, message)
  /\ lastSubmit' = "none"
  /\ EffectFrame
  /\ JobFrame

\* fetch settles, lines 163-168: ok, not ok with a statusText, or rejected.
FetchSettles ==
  /\ Ready
  /\ \E i \in 1..Len(jobs) :
       /\ jobs[i].pc = "fetch"
       /\ \/ Continue(i, [jobs[i] EXCEPT !.pc = "blob"])
          \/ \E statusText \in StatusTexts :
               JobFails(i, Str(FetchFailedPrefix \o statusText))
          \/ \E message \in ErrorMessages : JobFails(i, message)
  /\ lastSubmit' = "none"
  /\ EffectFrame
  /\ JobFrame

\* videoResponse.blob() settles, lines 168-170.
BlobSettles ==
  /\ Ready
  /\ \E i \in 1..Len(jobs) :
       /\ jobs[i].pc = "blob"
       /\ \/ JobSucceeds(i)
          \/ \E message \in ErrorMessages : JobFails(i, message)
  /\ lastSubmit' = "none"
  /\ EffectFrame
  /\ JobFrame

----------------------------------------------------------------------------
(* The component. *)

\* The state after the first render and its mount effect: checkApiKey has
\* called hasSelectedApiKey and awaits it (window.aistudio is present).
Init ==
  /\ hasApiKey = FALSE
  /\ prompt = DefaultPrompt
  /\ referenceImage = NoImage
  /\ aspectRatio = "16:9"
  /\ resolution = "1080p"
  /\ isLoading = FALSE
  /\ generatedVideoUrl = Null
  /\ error = Null
  /\ loadingIntervalRef = 0
  /\ effectDep = FALSE
  /\ timers = {}
  /\ objectUrls = [created |-> 0, revoked |-> {}]
  /\ checkPc = "await"
  /\ selectPending = 0
  /\ reads = {}
  /\ jobs = <<>>
  /\ lastSubmit = "none"
  /\ mounted = TRUE

Next ==
  \/ RunEffect
  \/ Unmount
  \/ CheckApiKeySettles
  \/ handleSelectKey
  \/ SelectKeyResolves
  \/ SelectKeyRejects
  \/ setPrompt
  \/ setAspectRatio
  \/ setResolution
  \/ handleImageChange
  \/ handleImageChangeNoFile
  \/ FileReadResolves
  \/ FileReadRejects
  \/ removeImage
  \/ handleGenerateVideo
  \/ GenerateVideosSettles
  \/ PollDelayElapses
  \/ GetVideosOperationSettles
  \/ FetchSettles
  \/ BlobSettles

Spec == Init /\ [][Next]_vars

\* The remote calls settle, the poll delay elapses and React runs the pending
\* effect: each of them happens once it can.
Fairness ==
  /\ WF_vars(RunEffect)
  /\ WF_vars(GenerateVideosSettles)
  /\ WF_vars(PollDelayElapses)
  /\ WF_vars(GetVideosOperationSettles)
  /\ WF_vars(FetchSettles)
  /\ WF_vars(BlobSettles)

\* The workflow alone: the user leaves the reference image, the aspect ratio
\* and the resolution as they are, which no step of a job in flight reads.
NextWorkflow ==
  \/ RunEffect
  \/ Unmount
  \/ CheckApiKeySettles
  \/ handleSelectKey
  \/ SelectKeyResolves
  \/ SelectKeyRejects
  \/ setPrompt
  \/ handleGenerateVideo
  \/ GenerateVideosSettles
  \/ PollDelayElapses
  \/ GetVideosOperationSettles
  \/ FetchSettles
  \/ BlobSettles

WorkflowSpec == Init /\ [][NextWorkflow]_vars

FairWorkflowSpec == WorkflowSpec /\ Fairness

\* The reference image beside the jobs: the user leaves the other form
\* fields as they are and opens no key dialog.
NextImage ==
  \/ RunEffect
  \/ CheckApiKeySettles
  \/ handleImageChange
  \/ handleImageChangeNoFile
  \/ FileReadResolves
  \/ FileReadRejects
  \/ removeImage
  \/ handleGenerateVideo
  \/ GenerateVideosSettles
  \/ PollDelayElapses
  \/ GetVideosOperationSettles
  \/ FetchSettles
  \/ BlobSettles

ImageSpec == Init /\ [][NextImage]_vars

\* The form beside the jobs: the key is the one the startup query found, the
\* component stays mounted, and of the two settings the user changes the
\* aspect ratio (the payload reads the resolution the same way, lines
\* 138-139).
NextRequest ==
  \/ RunEffect
  \/ CheckApiKeySettles
  \/ setPrompt
  \/ setAspectRatio
  \/ handleImageChange
  \/ handleImageChangeNoFile
  \/ FileReadResolves
  \/ FileReadRejects
  \/ removeImage
  \/ handleGenerateVideo
  \/ GenerateVideosSettles
  \/ PollDelayElapses
  \/ GetVideosOperationSettles
  \/ FetchSettles
  \/ BlobSettles

RequestSpec == Init /\ [][NextRequest]_vars

----------------------------------------------------------------------------
(* The workflow state of the specification, read off the component. *)

\* The output panel of lines 263-294 shows the busy state first, then the
\* error, then the video.
WorkflowState ==
  IF isLoading
  THEN IF \E i \in 1..Len(jobs) : jobs[i].pc # "generateVideos"
       THEN "Polling"
       ELSE "Submitting"
  ELSE IF error # Null THEN "Failed"
  ELSE IF generatedVideoUrl # Null THEN "Succeeded"
  ELSE "Idle"

\* The message of every error a job can raise.
RaisedMessages ==
  ErrorMessages \cup {Str(FetchFailedPrefix \o t) : t \in StatusTexts}
                \cup {Str(NoDownloadLinkMessage)}

JobIndices == 1..Len(jobs)

----------------------------------------------------------------------------
(* C1 *)

\* C1: at most one handleGenerateVideo invocation is past its guard at any
\* time, and a handleGenerateVideo call made while one is in flight starts
\* no job (no generateVideos call) and leaves isLoading, error and
\* generatedVideoUrl as they are.
C1_OneJobInFlight ==
  /\ [](Len(jobs) <= 1)
  /\ [][handleGenerateVideo /\ jobs # <<>>
          => UNCHANGED <<jobs, isLoading, error, generatedVideoUrl>>]_vars

\* A call with a non-blank prompt was ignored while a job is in flight.
C1_Witness ==
  /\ lastSubmit = "ignored"
  /\ Trim(prompt) # <<>>
  /\ Len(jobs) = 1
  /\ isLoading

----------------------------------------------------------------------------
(* C2 *)

\* C2: a handleGenerateVideo call that passes the guard puts the workflow in
\* Submitting, and, when every remote call settles and the service answers
\* not-done at most MaxPolls times, the job ends: a mounted component comes
\* to rest in Succeeded (generatedVideoUrl set) or Failed (error set) with
\* isLoading false.
C2_AcceptedSubmitEnds ==
  /\ [][handleGenerateVideo /\ ~SubmitGuard
          => WorkflowState' = "Submitting" /\ Trim(prompt) # <<>>]_vars
  /\ (jobs # <<>>) ~>
       (\/ ~mounted
        \/ /\ jobs = <<>>
           /\ ~isLoading
           /\ generatedVideoUrl # Null \/ error # Null)

\* A job came to rest in Succeeded.
C2_Witness ==
  /\ mounted
  /\ WorkflowState = "Succeeded"
  /\ jobs = <<>>
  /\ error = Null

----------------------------------------------------------------------------
(* C3 *)

\* C3: when generateVideos or getVideosOperation answers done with no
\* download link (uri absent or empty), the job ends in Failed with the
\* no-download-link message, no fetch is issued and generatedVideoUrl stays
\* null.
C3_NoLinkFails ==
  [][\A i \in JobIndices : \A operation \in Operations :
       ( /\ jobs[i].pc \in {"generateVideos", "getVideosOperation"}
         /\ operation.done
         /\ ~Truthy(operation.uri)
         /\ AfterOperation(i, operation) )
       => /\ WorkflowState' = "Failed"
          /\ error' = Str(NoDownloadLinkMessage)
          /\ jobs' = <<>>
          /\ generatedVideoUrl' = Null]_vars

\* A job ended with the no-download-link message.
C3_Witness ==
  /\ error = Str(NoDownloadLinkMessage)
  /\ WorkflowState = "Failed"
  /\ generatedVideoUrl = Null
  /\ jobs = <<>>

----------------------------------------------------------------------------
(* C4 *)

\* What the catch block is to show for an error message: the credential
\* message when it contains the not-found text, the unknown-error message
\* when it is missing or empty, else the message itself.
Surfaced(message) ==
  IF message.kind = "string" /\ Includes(message.chars, NotFoundNeedle)
  THEN InvalidKeyMessage
  ELSE IF message.kind = "string" /\ message.chars # <<>>
       THEN message.chars
       ELSE UnknownErrorMessage

\* The failures of the media fetch: a response that is not ok, or a rejected
\* fetch or blob call.
FetchFailures ==
  ErrorMessages \cup {Str(FetchFailedPrefix \o t) : t \in StatusTexts}

\* C4 as claimed: a failed media fetch ends the job in Failed with error the
\* failure's own message ("Failed to fetch video data: <statusText>" or the
\* transport error's message) and generatedVideoUrl null.
C4_Original ==
  [][\A i \in JobIndices : \A message \in FetchFailures :
       (jobs[i].pc \in {"fetch", "blob"} /\ JobFails(i, message))
       => /\ WorkflowState' = "Failed"
          /\ error' = Str(message.chars)
          /\ generatedVideoUrl' = Null]_vars

\* C4 as amended: a failed media fetch ends the job in Failed with
\* generatedVideoUrl null and error the failure's own message, except that a
\* message containing "Requested entity was not found." is shown as the
\* credential message and a missing or empty message as "An unknown error
\* occurred.".
C4_FetchFailureSurfaces ==
  [][\A i \in JobIndices : \A message \in FetchFailures :
       (jobs[i].pc \in {"fetch", "blob"} /\ JobFails(i, message))
       => /\ WorkflowState' = "Failed"
          /\ error' = Str(Surfaced(message))
          /\ jobs' = <<>>
          /\ generatedVideoUrl' = Null]_vars

\* A job ended with the message of a media response that was not ok.
C4_Witness ==
  /\ error = Str(FetchFailedPrefix \o <<"Forbidden">>)
  /\ WorkflowState = "Failed"
  /\ generatedVideoUrl = Null
  /\ jobs = <<>>

----------------------------------------------------------------------------
(* C5 *)

\* C5: an error raised at any stage of a job whose message contains
\* "Requested entity was not found." is shown as the credential message, and
\* hasApiKey becomes false.
C5_NotFoundRemapped ==
  [][\A i \in JobIndices : \A message \in RaisedMessages :
       (Includes(message.chars, NotFoundNeedle) /\ JobFails(i, message))
       => /\ error' = Str(InvalidKeyMessage)
          /\ hasApiKey' = FALSE
          /\ ~isLoading']_vars

\* A job ended with the credential message and the key flag is off.
C5_Witness ==
  /\ error = Str(InvalidKeyMessage)
  /\ ~hasApiKey
  /\ checkPc = "done"
  /\ WorkflowState = "Failed"

----------------------------------------------------------------------------
(* C6 *)

\* C6: an error at any stage ends the attempt: the invocation is over (it
\* awaits no remote call and issues none), error holds one non-empty
\* message, isLoading is false and generatedVideoUrl is null; and a job
\* starts only in a handleGenerateVideo call that passed the guard.
C6_ErrorsAreTerminal ==
  /\ [][\A i \in JobIndices : \A message \in RaisedMessages :
          JobFails(i, message)
          => /\ jobs' = <<>>
             /\ Truthy(error')
             /\ ~isLoading'
             /\ generatedVideoUrl' = Null]_vars
  /\ [][jobs = <<>> /\ jobs' # <<>>
          => /\ lastSubmit' = "accepted"
             /\ jobs'[1].pc = "generateVideos"]_vars

\* A job failed with an error that had no message, and nothing is in flight.
C6_Witness ==
  /\ WorkflowState = "Failed"
  /\ error = Str(UnknownErrorMessage)
  /\ jobs = <<>>
  /\ generatedVideoUrl = Null

----------------------------------------------------------------------------
(* C7 *)

\* The edges of the specified state machine.
Edges ==
  { <<"Idle", "Submitting">>,
    <<"Submitting", "Polling">>,
    <<"Submitting", "Failed">>,
    <<"Polling", "Polling">>,
    <<"Polling", "Succeeded">>,
    <<"Polling", "Failed">>,
    <<"Succeeded", "Submitting">>,
    <<"Failed", "Submitting">> }

\* C7: while the component is mounted every change of the workflow state
\* follows an edge of the state machine, and Succeeded is entered only by a
\* job whose operation is done and carries a download link.
C7_FollowsStateMachine ==
  [][mounted'
       => /\ \/ WorkflowState' = WorkflowState
             \/ <<WorkflowState, WorkflowState'>> \in Edges
          /\ (WorkflowState # "Succeeded" /\ WorkflowState' = "Succeeded")
               => /\ jobs # <<>>
                  /\ jobs[1].operation.done
                  /\ Truthy(jobs[1].operation.uri)]_vars

----------------------------------------------------------------------------
(* C8 *)

\* C8: at most one interval timer runs at any time; once the isLoading
\* effect has run, a timer runs iff isLoading is true, and it is the one the
\* ref holds; no timer runs after the component is unmounted.
C8_TimerOnlyWhileBusy ==
  /\ Cardinality(timers) <= 1
  /\ (mounted /\ EffectsFlushed)
       => /\ (timers # {}) <=> isLoading
          /\ timers \subseteq {loadingIntervalRef}
          /\ isLoading \/ loadingIntervalRef = 0
  /\ ~mounted => timers = {}

\* The component was unmounted while busy: the ref still names the timer,
\* which no longer runs.
C8_Witness ==
  /\ ~mounted
  /\ loadingIntervalRef # 0
  /\ timers = {}

----------------------------------------------------------------------------
(* C9 *)

\* C9: removeImage with a reference image present revokes the preview URL
\* held in state, sets file, previewUrl and base64 to null, and changes
\* neither isLoading, error, generatedVideoUrl, hasApiKey nor a job.
C9_RemoveImageReleases ==
  [][(removeImage /\ referenceImage.previewUrl # 0)
       => /\ referenceImage.previewUrl \in objectUrls'.revoked
          /\ referenceImage'.file = 0
          /\ referenceImage'.previewUrl = 0
          /\ referenceImage'.base64 = Null
          /\ UNCHANGED <<isLoading, error, generatedVideoUrl, hasApiKey,
                         jobs>>]_vars

\* The one preview URL created was shown and then removed during a job.
C9_Witness ==
  /\ referenceImage = NoImage
  /\ reads = {}
  /\ objectUrls = [created |-> 1, revoked |-> {1}]
  /\ isLoading

----------------------------------------------------------------------------
(* C10 *)

\* The preview URLs handleImageChange invocations still hold at their await.
PendingUrls == {r.previewUrl : r \in reads}

\* C10: while the component is mounted, every preview URL created is the one in state, or is held by a
\* handleImageChange invocation at its await, or has been revoked; and the
\* previewUrl in state is not a revoked URL.
C10_PreviewUrlsReleased ==
  mounted =>
    /\ \A u \in 1..objectUrls.created :
         \/ u = referenceImage.previewUrl
         \/ u \in PendingUrls
         \/ u \in objectUrls.revoked
    /\ referenceImage.previewUrl \notin objectUrls.revoked

----------------------------------------------------------------------------
(* C11 *)

\* The invocation the handleGenerateVideo call of this step started.
Submitted == jobs'[Len(jobs')]

\* C11: a handleGenerateVideo call that passes the guard while the state
\* holds a reference image sends generateVideos a payload whose image has
\* imageBytes the base64 encoding of that file's bytes and mimeType that
\* file's type; with no reference image in state the payload has no image.
C11_PayloadCarriesImage ==
  [][(handleGenerateVideo /\ ~SubmitGuard)
       => Submitted.payload.image =
            IF referenceImage.file # 0
            THEN [imageBytes |-> Str(Base64(FileBytes(referenceImage.file))),
                  mimeType |-> FileType(referenceImage.file)]
            ELSE Undefined]_vars

----------------------------------------------------------------------------
(* C12 *)

\* checkApiKey has called hasSelectedApiKey and awaits its answer.
QueryPending == checkPc = "await"

\* C12 as claimed: hasSelectedApiKey is queried at startup (Init), and again
\* after every generation that ends in Failed: the step that ends the job
\* issues the query.
C12_Original ==
  [][\A i \in JobIndices : \A message \in RaisedMessages :
       JobFails(i, message) => QueryPending']_vars

\* C12 as amended: hasSelectedApiKey is queried by the mount effect alone.
\* No step issues a query once the startup query has settled, and a job that
\* ends, Failed or not, leaves the query as it is; a failure changes
\* hasApiKey only by the not-found rule.
C12_QueriedAtStartupOnly ==
  /\ [][QueryPending' => QueryPending]_vars
  /\ [][\A i \in JobIndices : \A message \in RaisedMessages :
          JobFails(i, message)
          => /\ UNCHANGED checkPc
             /\ hasApiKey' = (hasApiKey /\ ~IsNotFound(ErrorMessageOf(message)))]_vars

\* A job failed with the key still held after the startup query had settled:
\* no query is pending.
C12_Witness ==
  /\ mounted
  /\ WorkflowState = "Failed"
  /\ error = Str(<<"The service is currently unavailable.">>)
  /\ hasApiKey
  /\ ~QueryPending
  /\ jobs = <<>>

----------------------------------------------------------------------------
(* C13 *)

\* The errors whose message does not contain the not-found text.
OtherMessages ==
  {message \in RaisedMessages : ~Includes(message.chars, NotFoundNeedle)}

\* C13 as claimed: an error whose message does not contain "Requested entity
\* was not found." is shown as its own message, unchanged, and leaves
\* hasApiKey as it is.
C13_Original ==
  [][\A i \in JobIndices : \A message \in OtherMessages :
       JobFails(i, message)
       => /\ error' = message
          /\ UNCHANGED hasApiKey]_vars

\* C13 as amended: an error whose message does not contain "Requested entity
\* was not found." leaves hasApiKey as it is and is shown as its own message,
\* unchanged, when it has a non-empty one, and as "An unknown error
\* occurred." when its message is missing or empty.
C13_OtherErrorsPassThrough ==
  [][\A i \in JobIndices : \A message \in OtherMessages :
       JobFails(i, message)
       => /\ error' = IF message.kind = "string" /\ message.chars # <<>>
                       THEN message
                       ELSE Str(UnknownErrorMessage)
          /\ UNCHANGED hasApiKey]_vars

\* A job failed on an error without a message while the key is held: the
\* fallback message is shown and the form is still there.
C13_Witness ==
  /\ mounted
  /\ hasApiKey
  /\ MainContentShown
  /\ error = Str(UnknownErrorMessage)
  /\ ~isLoading
  /\ lastSubmit = "none"

----------------------------------------------------------------------------
(* C14 *)

\* The step changes a field of the form: the prompt, the aspect ratio, the
\* resolution, or the reference image (picked, read in, or removed).
FormChanges ==
  \/ prompt' # prompt
  \/ aspectRatio' # aspectRatio
  \/ resolution' # resolution
  \/ referenceImage' # referenceImage
  \/ reads' # reads

----------------------------------------------------------------------------
(* C15 *)

\* The invocation waits out the delay of line 153 or awaits the
\* getVideosOperation call of line 154.
InPollLoop(job) == job.pc \in {"setTimeout", "getVideosOperation"}

\* C15: getVideosOperation is called only when the delay that began at a
\* not-done answer has elapsed, and it is passed the operation of the latest
\* answer; an invocation is in the poll loop only while the latest answer is
\* not done, and once an answer is done (that of generateVideos included) it
\* never enters the loop again.
C15_PollProtocol ==
  /\ [](\A i \in JobIndices :
          InPollLoop(jobs[i])
          => /\ ~jobs[i].operation.done
             /\ jobs[i].polls >= 1
             /\ jobs[i].pc = "getVideosOperation"
                  => jobs[i].asked = jobs[i].polls)
  /\ [][\A i \in JobIndices :
          ( /\ i <= Len(jobs')
            /\ jobs'[i].pc = "getVideosOperation"
            /\ jobs[i].pc # "getVideosOperation" )
          => /\ jobs[i].pc = "setTimeout"
             /\ jobs'[i].operation = jobs[i].operation
             /\ jobs'[i].asked = jobs[i].polls]_vars
  /\ [][\A i \in JobIndices :
          ( /\ i <= Len(jobs')
            /\ jobs'[i].pc = "setTimeout"
            /\ jobs[i].pc # "setTimeout" )
          => /\ jobs[i].pc \in {"generateVideos", "getVideosOperation"}
             /\ ~jobs'[i].operation.done
             /\ jobs'[i].polls = jobs[i].polls + 1]_vars
  /\ [][\A i \in JobIndices :
          (i <= Len(jobs') /\ jobs'[i].operation.done)
          => ~InPollLoop(jobs'[i])]_vars

\* The second getVideosOperation call of a job is pending: two answers were
\* not done, and the call was passed the second one.
C15_Witness ==
  /\ jobs # <<>>
  /\ jobs[1].pc = "getVideosOperation"
  /\ jobs[1].polls = 2
  /\ jobs[1].asked = 2
  /\ ~jobs[1].operation.done

----------------------------------------------------------------------------
(* C16 *)

\* C16: when openSelectKey resolves, hasApiKey becomes true and no presence
\* query is issued; when it rejects, hasApiKey stays as it is and error
\* becomes the dialog message; and the startup query, whenever it settles,
\* does not take away a hasApiKey that a resolved selection has set.
C16_SelectionIsOptimistic ==
  /\ [][SelectKeyResolves => (hasApiKey' /\ UNCHANGED checkPc)]_vars
  /\ [][SelectKeyRejects
          => /\ UNCHANGED <<hasApiKey, checkPc>>
             /\ error' = Str(DialogErrorMessage)]_vars
  /\ [][(CheckApiKeySettles /\ hasApiKey) => hasApiKey']_vars

----------------------------------------------------------------------------
(* C17 *)

\* The remote calls of a job: generateVideos, getVideosOperation, and the
\* media fetch with the read of its body.
RemoteCallPending(job) ==
  job.pc \in {"generateVideos", "getVideosOperation", "fetch", "blob"}

\* C17: while the component is mounted, isLoading is true exactly while a
\* handleGenerateVideo invocation is between its guard and its finally
\* block; so an invocation that awaits a remote call, or the delay before
\* its next one, finds isLoading true.
C17_BusyTracksJob ==
  mounted =>
    /\ isLoading <=> jobs # <<>>
    /\ \A i \in JobIndices :
         (RemoteCallPending(jobs[i]) \/ InPollLoop(jobs[i])) => isLoading

\* The body of the media response is being read, the last remote call of a
\* job, and the flag is still set; the effect has started the timer.
C17_Witness ==
  /\ jobs # <<>>
  /\ jobs[1].pc = "blob"
  /\ isLoading
  /\ EffectsFlushed
  /\ timers # {}

----------------------------------------------------------------------------
(* C18 *)

\* C18: while the component is mounted, error and generatedVideoUrl are
\* never both set, and while isLoading is true both are null.
C18_NoImpossibleCombination ==
  mounted =>
    /\ ~(error # Null /\ generatedVideoUrl # Null)
    /\ isLoading => (error = Null /\ generatedVideoUrl = Null)

----------------------------------------------------------------------------
(* C19 *)

\* C19: a handleGenerateVideo call made while the prompt is empty or all
\* whitespace starts no job (no remote call) and leaves isLoading, error,
\* generatedVideoUrl and hasApiKey as they are, in every workflow state.
C19_BlankPromptIgnored ==
  [][(handleGenerateVideo /\ Trim(prompt) = <<>>)
       => /\ lastSubmit' = "ignored"
          /\ UNCHANGED <<jobs, isLoading, error, generatedVideoUrl,
                         hasApiKey>>]_vars

\* A call with a prompt of whitespace was ignored while the error of the
\* last job is shown: the error is still there.
C19_Witness ==
  /\ lastSubmit = "ignored"
  /\ prompt # <<>>
  /\ Trim(prompt) = <<>>
  /\ WorkflowState = "Failed"
  /\ jobs = <<>>

====
